---- MODULE Spec2Model ----
(***************************************************************************)
(* Journey & fare settlement engine of gait-pass-backend.                  *)
(*                                                                         *)
(* The state is the content of the MongoDB collections the gate handlers   *)
(* use (stations, fares, journeys, wallets, users), the wall clock, and    *)
(* one record per request handler in flight.  A handler is a coroutine:    *)
(* it runs without interruption between two awaits, and every await is a   *)
(* single storage operation, so every action below is "one storage         *)
(* operation plus the Python code up to the next await".  Handlers of      *)
(* different requests interleave at their awaits.  Storage operations      *)
(* return, except in SpecFault, where those whose exception reaches the    *)
(* gate handler may raise.                                                 *)
(* find_one returns the first match in insertion order.                    *)
(*                                                                         *)
(* Money is kept in whole rupees (the source uses floats; every amount     *)
(* the model draws is a whole number, on which float arithmetic and        *)
(* round(x, 2) are exact).  Time is kept in whole hours.                   *)
(***************************************************************************)
EXTENDS Integers, Sequences, FiniteSets, TLC

(***************************************************************************)
(* Bounds of the model.                                                    *)
(***************************************************************************)
NumProcs == 2
NumRiders == 2
MaxJourneys == 2
MaxCredits == 2
MaxClock == 5
MaxRules == 2

Procs == 1..NumProcs
Riders == 1..NumRiders

\* the riders whose gate events, recharges and deletion Spec interleaves; the
\* other riders keep the wallet they registered with
GateRiders == {1}

(***************************************************************************)
(* Program constants.                                                      *)
(***************************************************************************)
MinEntryBalance == 20
ServiceCharge == 5
PenaltyFare == 50
MaxJourneyHours == 4

(***************************************************************************)
(* Inputs.  Codes arrive in any case; "a" is the lower-case spelling of    *)
(* station A and "C" is a soft-deleted station.                            *)
(***************************************************************************)
Codes == {"a", "B", "C"}
RechargeAmounts == {20, 35}

\* the rules an admin configures: distance_km and base_fare, both positive
FareOffers == {[distance_km |-> 10, base_fare |-> 30], [distance_km |-> 12, base_fare |-> 40]}

Null == "null"
NullNum == 0 - 1

\* str.upper() on the codes of the model
Upper(c) == IF c = "a" THEN "A" ELSE c

VARIABLES stations, fares, journeys, nextJid, wallets, users, clock, proc

vars == <<stations, fares, journeys, nextJid, wallets, users, clock, proc>>

(***************************************************************************)
(* Sequence helpers.                                                       *)
(***************************************************************************)
\* the first of a set of indices of a collection, 0 if the set is empty
\* (find_one / update_one / delete_one act on the first document that matches)
First(S) == IF S = {} THEN 0 ELSE CHOOSE i \in S : \A k \in S : i <= k

RemoveAt(s, i) == SubSeq(s, 1, i - 1) \o SubSeq(s, i + 1, Len(s))

RECURSIVE SelectNot(_, _)
SelectNot(s, u) ==
    IF s = <<>> THEN <<>>
    ELSE IF Head(s).user_id = u THEN SelectNot(Tail(s), u)
    ELSE <<Head(s)>> \o SelectNot(Tail(s), u)

(***************************************************************************)
(* Documents.                                                              *)
(***************************************************************************)
\* the wallet document create_wallet_for_user inserts
NewWallet(u) ==
    [user_id |-> u, balance |-> 0, status |-> "inactive", transactions |-> <<>>,
     is_active |-> TRUE]

\* the journey document start_journey inserts
NewJourney(id, u, code, now) ==
    [_id |-> id, journey_id |-> id, user_id |-> u,
     entry_station_code |-> Upper(code), entry_time |-> now,
     exit_station_code |-> Null, exit_time |-> NullNum,
     journey_duration_minutes |-> NullNum,
     fare_details |-> [base_fare |-> NullNum, service_charge |-> NullNum,
                       total_fare |-> NullNum, penalty_fare |-> 0],
     status |-> "ongoing",
     max_journey_time |-> now + MaxJourneyHours,
     is_active |-> TRUE]

NoFare ==
    [found |-> FALSE, from_station |-> Null, to_station |-> Null,
     distance_km |-> 0, base_fare |-> 0, service_charge |-> 0, total_fare |-> 0]

NoResp == [success |-> FALSE, action |-> "none", message |-> "none"]

\* no wallet document returned
NoWallet ==
    [user_id |-> 0, balance |-> 0, status |-> "none", transactions |-> <<>>,
     is_active |-> FALSE]

\* the locals of a handler that has not started
IdleProc ==
    [pc |-> "idle", op |-> "none", user |-> 0, code |-> Null,
     jid |-> 0, origin |-> Null, cjid |-> 0, fare |-> NoFare, penalty |-> 0,
     now |-> 0, balance |-> 0, debited |-> FALSE, exc |-> "none", wallet |-> NoWallet,
     resp |-> NoResp]

(***************************************************************************)
(* Storage reads of the models.                                            *)
(***************************************************************************)
\* Station.get_station_by_code: index of the active station with that code
StationIdx(code) ==
    First({i \in 1..Len(stations) :
              stations[i].station_code = Upper(code) /\ stations[i].is_active})

\* the lookup with the reversed pair tried first
FareIdxReverseFirst(from, to) ==
    LET Rule(a, b) == First({i \in 1..Len(fares) :
                                /\ fares[i].from_station_code = Upper(a)
                                /\ fares[i].to_station_code = Upper(b)
                                /\ fares[i].is_active})
    IN  IF Rule(to, from) # 0 THEN Rule(to, from) ELSE Rule(from, to)

\* Fare.calculate_fare: the stored direction first, then the reversed pair
FareIdx(from, to) ==
    LET Rule(a, b) == First({i \in 1..Len(fares) :
                                /\ fares[i].from_station_code = Upper(a)
                                /\ fares[i].to_station_code = Upper(b)
                                /\ fares[i].is_active})
    IN  IF Rule(from, to) # 0 THEN Rule(from, to) ELSE Rule(to, from)

CalculateFare(from, to) ==
    LET i == FareIdx(from, to)
    IN  IF i = 0 THEN NoFare
        ELSE [found |-> TRUE, from_station |-> Upper(from), to_station |-> Upper(to),
              distance_km |-> fares[i].distance_km,
              base_fare |-> fares[i].base_fare,
              service_charge |-> ServiceCharge,
              total_fare |-> fares[i].base_fare + ServiceCharge]

\* the wallet update_one / delete_one / find_one_and_update {"user_id": u} acts on
WalletIdx(u) == First({i \in 1..Len(wallets) : wallets[i].user_id = u})

\* the balance read as the entry floor when no active wallet is found
GetBalanceFloorDefault(u) ==
    LET i == First({k \in 1..Len(wallets) :
                       wallets[k].user_id = u /\ wallets[k].is_active})
    IN  IF i = 0 THEN MinEntryBalance ELSE wallets[i].balance

\* Wallet.get_balance: 0.0 when no active wallet is found
GetBalance(u) ==
    LET i == First({k \in 1..Len(wallets) :
                       wallets[k].user_id = u /\ wallets[k].is_active})
    IN  IF i = 0 THEN 0 ELSE wallets[i].balance

\* the lookup without the filter on the status: the rider's first journey
OngoingIdxAnyStatus(u) ==
    First({i \in 1..Len(journeys) :
              /\ journeys[i].user_id = u
              /\ journeys[i].is_active})

\* Journey.get_ongoing_journey, and the find_one of start_journey and
\* complete_journey: index of the rider's first ongoing journey
OngoingIdx(u) ==
    First({i \in 1..Len(journeys) :
              /\ journeys[i].user_id = u
              /\ journeys[i].status = "ongoing"
              /\ journeys[i].is_active})

JourneyIdxById(id) == First({i \in 1..Len(journeys) : journeys[i]._id = id})

(***************************************************************************)
(* Storage writes of the models.                                           *)
(***************************************************************************)
\* add_transaction with the sign of a debit lost: the balance grows by the
\* amount whatever the type
AddTransactionUnsigned(ws, u, type, amount, reference) ==
    LET i == First({k \in 1..Len(ws) : ws[k].user_id = u})
        txn == [type |-> type, amount |-> amount, reference |-> reference]
    IN  IF i = 0 THEN ws
        ELSE [ws EXCEPT ![i].balance = @ + amount,
                        ![i].transactions = Append(@, txn)]

\* add_transaction with no filter on the rider: the first wallet stored is
\* updated
AddTransactionAnyRider(ws, u, type, amount, reference) ==
    LET i == First({k \in 1..Len(ws) : TRUE})
        delta == IF type = "debit" THEN 0 - amount ELSE amount
        txn == [type |-> type, amount |-> amount, reference |-> reference]
    IN  IF i = 0 THEN ws
        ELSE [ws EXCEPT ![i].balance = @ + delta,
                        ![i].transactions = Append(@, txn)]

\* add_transaction as an upsert: a rider without a wallet gets one holding
\* the transaction
AddTransactionUpserting(ws, u, type, amount, reference) ==
    LET i == First({k \in 1..Len(ws) : ws[k].user_id = u})
        delta == IF type = "debit" THEN 0 - amount ELSE amount
        txn == [type |-> type, amount |-> amount, reference |-> reference]
    IN  IF i = 0
        THEN Append(ws, [NewWallet(u) EXCEPT !.balance = delta, !.transactions = <<txn>>])
        ELSE [ws EXCEPT ![i].balance = @ + delta,
                        ![i].transactions = Append(@, txn)]

\* Wallet.add_transaction: one update_one that increments the balance and
\* pushes the transaction; no condition on the balance or the status
AddTransaction(ws, u, type, amount, reference) ==
    LET i == First({k \in 1..Len(ws) : ws[k].user_id = u})
        delta == IF type = "debit" THEN 0 - amount ELSE amount
        txn == [type |-> type, amount |-> amount, reference |-> reference]
    IN  IF i = 0 THEN ws
        ELSE [ws EXCEPT ![i].balance = @ + delta,
                        ![i].transactions = Append(@, txn)]

\* add_transaction never reporting a modified document
AddTransactionOkNever(ws, u) == First({k \in 1..Len(ws) : ws[k].user_id = u}) > Len(ws)

\* the value add_transaction returns: result.modified_count > 0
AddTransactionOk(ws, u) == First({k \in 1..Len(ws) : ws[k].user_id = u}) # 0

\* the penalty charged from the deadline on, not only after it
PenaltyFromDeadline(now, deadline) == IF now >= deadline THEN PenaltyFare ELSE 0

\* Journey.complete_journey: the late-exit penalty, due when exit_time is
\* after max_journey_time
Penalty(now, deadline) == IF now > deadline THEN PenaltyFare ELSE 0

\* the completion that also restarts the deadline from the exit time
CompleteUpdateMovingDeadline(js, id, code, fare, penalty, now) ==
    LET i == First({k \in 1..Len(js) : js[k]._id = id})
    IN  IF i = 0 THEN js
        ELSE [js EXCEPT ![i].exit_station_code = Upper(code),
                        ![i].exit_time = now,
                        ![i].journey_duration_minutes = (now - js[i].entry_time) * 60,
                        ![i].fare_details =
                            [base_fare |-> fare.base_fare,
                             service_charge |-> fare.service_charge,
                             total_fare |-> fare.total_fare + penalty,
                             penalty_fare |-> penalty],
                        ![i].max_journey_time = now + MaxJourneyHours,
                        ![i].status = "completed"]

\* the $set of Journey.complete_journey on the document with that _id
CompleteUpdate(js, id, code, fare, penalty, now) ==
    LET i == First({k \in 1..Len(js) : js[k]._id = id})
    IN  IF i = 0 THEN js
        ELSE [js EXCEPT ![i].exit_station_code = Upper(code),
                        ![i].exit_time = now,
                        ![i].journey_duration_minutes = (now - js[i].entry_time) * 60,
                        ![i].fare_details =
                            [base_fare |-> fare.base_fare,
                             service_charge |-> fare.service_charge,
                             total_fare |-> fare.total_fare + penalty,
                             penalty_fare |-> penalty],
                        ![i].status = "completed"]

\* the cancel as an update of every stored journey
CancelUpdateDocEvery(js, id) ==
    [k \in 1..Len(js) |-> [js[k] EXCEPT !.status = "emergency_cancelled"]]

\* the $set of emergency_exit_admin on the document with that _id
CancelUpdateDoc(js, id) ==
    LET i == First({k \in 1..Len(js) : js[k]._id = id})
    IN  IF i = 0 THEN js ELSE [js EXCEPT ![i].status = "emergency_cancelled"]

(***************************************************************************)
(* Handlers.  A handler starts in a free slot (idle, or done with a        *)
(* response that has been returned) and ends in "done" with its response.  *)
(***************************************************************************)
Free(p) == proc[p].pc \in {"idle", "done"}

Resp(ok, action, message) == [success |-> ok, action |-> action, message |-> message]

Started(op, u, code) == [IdleProc EXCEPT !.op = op, !.user = u, !.code = code]

\* the handler returns: its response stays, with the journey it names, the
\* fare it priced, the outcome of its debit and the exception its except
\* clause caught and logged; the other locals are dropped
Finish(r, resp) ==
    [IdleProc EXCEPT !.pc = "done", !.op = r.op, !.user = r.user, !.jid = r.jid,
                     !.cjid = r.cjid, !.fare = r.fare, !.debited = r.debited,
                     !.exc = r.exc,
                     !.resp = resp]

EntryPcs == {"e_balance", "e_find", "e_insert"}

\* journeys already inserted plus those the entries in flight may still insert
JourneyBudgetUsed == (nextJid - 1) + Cardinality({q \in Procs : proc[q].pc \in EntryPcs})

Credits(w) == Cardinality({i \in 1..Len(w.transactions) : w.transactions[i].type = "credit"})

(***************************************************************************)
(* automated_journey_entry                                                 *)
(***************************************************************************)
\* the request arrives; get_station_by_code
EntryStation(p, u, code) ==
    /\ Free(p)
    /\ JourneyBudgetUsed < MaxJourneys
    /\ proc' = [proc EXCEPT ![p] =
          IF StationIdx(code) = 0
          THEN Finish(Started("entry", u, code),
                      Resp(FALSE, "deny_entry", "Invalid station"))
          ELSE [Started("entry", u, code) EXCEPT !.pc = "e_balance"]]
    /\ UNCHANGED <<stations, fares, journeys, nextJid, wallets, users, clock>>

\* the entry without the floor: any balance goes on to start_journey
EntryBalanceNoFloor(p) ==
    /\ proc[p].pc = "e_balance"
    /\ LET b == GetBalance(proc[p].user)
       IN  proc' = [proc EXCEPT ![p] = [@ EXCEPT !.balance = b, !.pc = "e_find"]]
    /\ UNCHANGED <<stations, fares, journeys, nextJid, wallets, users, clock>>

\* get_balance and the floor check
EntryBalance(p) ==
    /\ proc[p].pc = "e_balance"
    /\ LET b == GetBalance(proc[p].user)
       IN  proc' = [proc EXCEPT ![p] =
             IF b < MinEntryBalance
             THEN Finish([@ EXCEPT !.balance = b],
                         Resp(FALSE, "deny_entry", "Insufficient balance"))
             ELSE [@ EXCEPT !.balance = b, !.pc = "e_find"]]
    /\ UNCHANGED <<stations, fares, journeys, nextJid, wallets, users, clock>>

\* start_journey going on to the insert whatever the find_one returns
EntryFindOngoingIgnored(p) ==
    /\ proc[p].pc = "e_find"
    /\ proc' = [proc EXCEPT ![p] = [@ EXCEPT !.pc = "e_insert", !.now = clock]]
    /\ UNCHANGED <<stations, fares, journeys, nextJid, wallets, users, clock>>

\* start_journey: the find_one for an ongoing journey; a hit raises ValueError,
\* which the handler's except turns into "System error"
EntryFindOngoing(p) ==
    /\ proc[p].pc = "e_find"
    /\ proc' = [proc EXCEPT ![p] =
          IF OngoingIdx(proc[p].user) # 0
          THEN Finish([@ EXCEPT !.exc = "User has ongoing journey"],
                      Resp(FALSE, "deny_entry", "System error"))
          ELSE [@ EXCEPT !.pc = "e_insert", !.now = clock]]
    /\ UNCHANGED <<stations, fares, journeys, nextJid, wallets, users, clock>>

\* the insert that also takes the entry floor from the wallet
EntryInsertCharged(p) ==
    /\ proc[p].pc = "e_insert"
    /\ journeys' = Append(journeys,
                          NewJourney(nextJid, proc[p].user, proc[p].code, proc[p].now))
    /\ nextJid' = nextJid + 1
    /\ wallets' = AddTransaction(wallets, proc[p].user, "debit", MinEntryBalance, nextJid)
    /\ proc' = [proc EXCEPT ![p] =
          Finish([@ EXCEPT !.jid = nextJid], Resp(TRUE, "allow_entry", "Journey started"))]
    /\ UNCHANGED <<stations, fares, users, clock>>

\* start_journey: insert_one of the journey document built after the find_one
EntryInsert(p) ==
    /\ proc[p].pc = "e_insert"
    /\ journeys' = Append(journeys,
                          NewJourney(nextJid, proc[p].user, proc[p].code, proc[p].now))
    /\ nextJid' = nextJid + 1
    /\ proc' = [proc EXCEPT ![p] =
          Finish([@ EXCEPT !.jid = nextJid], Resp(TRUE, "allow_entry", "Journey started"))]
    /\ UNCHANGED <<stations, fares, wallets, users, clock>>

(***************************************************************************)
(* automated_journey_exit                                                  *)
(***************************************************************************)
\* the request arrives; get_ongoing_journey
ExitGetOngoing(p, u, code) ==
    /\ Free(p)
    /\ LET i == OngoingIdx(u)
       IN  proc' = [proc EXCEPT ![p] =
             IF i = 0
             THEN Finish(Started("exit", u, code),
                         Resp(FALSE, "deny_exit", "No journey ongoing"))
             ELSE [Started("exit", u, code) EXCEPT
                     !.pc = "x_station",
                     !.jid = journeys[i].journey_id,
                     !.origin = journeys[i].entry_station_code]]
    /\ UNCHANGED <<stations, fares, journeys, nextJid, wallets, users, clock>>

\* the exit going on to the pricing whatever the station lookup returns
ExitStationUnchecked(p) ==
    /\ proc[p].pc = "x_station"
    /\ proc' = [proc EXCEPT ![p] = [@ EXCEPT !.pc = "x_fare"]]
    /\ UNCHANGED <<stations, fares, journeys, nextJid, wallets, users, clock>>

\* get_station_by_code of the exit station
ExitStation(p) ==
    /\ proc[p].pc = "x_station"
    /\ proc' = [proc EXCEPT ![p] =
          IF StationIdx(proc[p].code) = 0
          THEN Finish(@, Resp(FALSE, "deny_exit", "Invalid station"))
          ELSE [@ EXCEPT !.pc = "x_fare"]]
    /\ UNCHANGED <<stations, fares, journeys, nextJid, wallets, users, clock>>

\* calculate_fare; no rule in either direction raises ValueError -> "System error"
ExitFare(p) ==
    /\ proc[p].pc = "x_fare"
    /\ LET f == CalculateFare(proc[p].origin, proc[p].code)
       IN  proc' = [proc EXCEPT ![p] =
             IF ~f.found
             THEN Finish([@ EXCEPT !.exc = "No fare found for route"],
                         Resp(FALSE, "deny_exit", "System error"))
             ELSE [@ EXCEPT !.pc = "x_balance", !.fare = f]]
    /\ UNCHANGED <<stations, fares, journeys, nextJid, wallets, users, clock>>

\* the exit waiting at the balance check until the funds are there
ExitBalanceWaiting(p) ==
    /\ proc[p].pc = "x_balance"
    /\ LET b == GetBalance(proc[p].user)
       IN  proc' = [proc EXCEPT ![p] =
             IF b < proc[p].fare.total_fare
             THEN [@ EXCEPT !.balance = b]
             ELSE [@ EXCEPT !.balance = b, !.pc = "x_debit"]]
    /\ UNCHANGED <<stations, fares, journeys, nextJid, wallets, users, clock>>

\* get_balance and the comparison with the priced total
ExitBalance(p) ==
    /\ proc[p].pc = "x_balance"
    /\ LET b == GetBalance(proc[p].user)
       IN  proc' = [proc EXCEPT ![p] =
             IF b < proc[p].fare.total_fare
             THEN Finish([@ EXCEPT !.balance = b],
                         Resp(FALSE, "deny_exit", "Low balance"))
             ELSE [@ EXCEPT !.balance = b, !.pc = "x_debit"]]
    /\ UNCHANGED <<stations, fares, journeys, nextJid, wallets, users, clock>>

\* the debit of the base price alone, the service charge left out
ExitDebitBase(p) ==
    /\ proc[p].pc = "x_debit"
    /\ wallets' = AddTransaction(wallets, proc[p].user, "debit",
                                 proc[p].fare.base_fare, proc[p].jid)
    /\ proc' = [proc EXCEPT ![p] =
          [@ EXCEPT !.pc = "x_find", !.debited = AddTransactionOk(wallets, proc[p].user)]]
    /\ UNCHANGED <<stations, fares, journeys, nextJid, users, clock>>

\* add_transaction(debit); the handler drops the value it returns
ExitDebit(p) ==
    /\ proc[p].pc = "x_debit"
    /\ wallets' = AddTransaction(wallets, proc[p].user, "debit",
                                 proc[p].fare.total_fare, proc[p].jid)
    /\ proc' = [proc EXCEPT ![p] =
          [@ EXCEPT !.pc = "x_find", !.debited = AddTransactionOk(wallets, proc[p].user)]]
    /\ UNCHANGED <<stations, fares, journeys, nextJid, users, clock>>

\* complete_journey: the find_one for the rider's ongoing journey, then
\* exit_time and the late-exit penalty; none found raises -> "System error"
ExitCompleteFind(p) ==
    /\ proc[p].pc = "x_find"
    /\ LET i == OngoingIdx(proc[p].user)
       IN  proc' = [proc EXCEPT ![p] =
             IF i = 0
             THEN Finish([@ EXCEPT !.exc = "No ongoing journey found for user"],
                         Resp(FALSE, "deny_exit", "System error"))
             ELSE [@ EXCEPT !.pc = "x_update",
                            !.cjid = journeys[i]._id,
                            !.now = clock,
                            !.penalty = Penalty(clock, journeys[i].max_journey_time)]]
    /\ UNCHANGED <<stations, fares, journeys, nextJid, wallets, users, clock>>

\* complete_journey: update_one {"_id": journey["_id"]} with the closing fields
ExitCompleteUpdate(p) ==
    /\ proc[p].pc = "x_update"
    /\ journeys' = CompleteUpdate(journeys, proc[p].cjid, proc[p].code, proc[p].fare,
                                  proc[p].penalty, proc[p].now)
    /\ proc' = [proc EXCEPT ![p].pc = "x_reread"]
    /\ UNCHANGED <<stations, fares, nextJid, wallets, users, clock>>

\* complete_journey: the find_one by _id for the response; a document that is
\* gone makes the conversion raise -> "System error"
ExitCompleteReread(p) ==
    /\ proc[p].pc = "x_reread"
    /\ proc' = [proc EXCEPT ![p] =
          IF JourneyIdxById(proc[p].cjid) = 0
          THEN Finish([@ EXCEPT !.exc = "TypeError"],
                      Resp(FALSE, "deny_exit", "System error"))
          ELSE Finish(@, Resp(TRUE, "allow_exit", "Journey completed"))]
    /\ UNCHANGED <<stations, fares, journeys, nextJid, wallets, users, clock>>

(***************************************************************************)
(* emergency_exit_admin                                                    *)
(***************************************************************************)
CancelGetOngoing(p, u) ==
    /\ Free(p)
    /\ LET i == OngoingIdx(u)
       IN  proc' = [proc EXCEPT ![p] =
             IF i = 0
             THEN Finish(Started("cancel", u, Null),
                         Resp(FALSE, "cancel", "No journey to cancel"))
             ELSE [Started("cancel", u, Null) EXCEPT
                     !.pc = "c_update", !.jid = journeys[i].journey_id,
                     !.cjid = journeys[i]._id]]
    /\ UNCHANGED <<stations, fares, journeys, nextJid, wallets, users, clock>>

\* update_one {"_id": ongoing["_id"]} -> emergency_cancelled, whatever the status
CancelUpdate(p) ==
    /\ proc[p].pc = "c_update"
    /\ journeys' = CancelUpdateDoc(journeys, proc[p].cjid)
    /\ proc' = [proc EXCEPT ![p] = Finish(@, Resp(TRUE, "cancel", "Journey cancelled"))]
    /\ UNCHANGED <<stations, fares, nextJid, wallets, users, clock>>

(***************************************************************************)
(* recharge_wallet and activate_wallet (routers/wallet.py)                 *)
(***************************************************************************)
\* the recharge that sets the log to its own record instead of pushing it
RechargeReplacingLog(p, u, amount) ==
    /\ Free(p)
    /\ u \in users
    /\ WalletIdx(u) # 0 => Credits(wallets[WalletIdx(u)]) < MaxCredits
    /\ wallets' = IF WalletIdx(u) = 0 THEN wallets
                  ELSE [wallets EXCEPT
                          ![WalletIdx(u)].balance = @ + amount,
                          ![WalletIdx(u)].transactions =
                              <<[type |-> "credit", amount |-> amount,
                                 reference |-> "RECHARGE"]>>]
    /\ proc' = [proc EXCEPT ![p] =
          IF AddTransactionOk(wallets, u)
          THEN Finish(Started("recharge", u, Null),
                      Resp(TRUE, "recharge", "Wallet recharged successfully"))
          ELSE Finish(Started("recharge", u, Null),
                      Resp(FALSE, "recharge", "Recharge transaction failed"))]
    /\ UNCHANGED <<stations, fares, journeys, nextJid, users, clock>>

\* add_transaction(credit) for the authenticated user
Recharge(p, u, amount) ==
    /\ Free(p)
    /\ u \in users
    /\ WalletIdx(u) # 0 => Credits(wallets[WalletIdx(u)]) < MaxCredits
    /\ wallets' = AddTransaction(wallets, u, "credit", amount, "RECHARGE")
    /\ proc' = [proc EXCEPT ![p] =
          IF AddTransactionOk(wallets, u)
          THEN Finish(Started("recharge", u, Null),
                      Resp(TRUE, "recharge", "Wallet recharged successfully"))
          ELSE Finish(Started("recharge", u, Null),
                      Resp(FALSE, "recharge", "Recharge transaction failed"))]
    /\ UNCHANGED <<stations, fares, journeys, nextJid, users, clock>>

\* the activation as an upsert: a rider without a wallet gets an active one
ActivateUpsert(p, u) ==
    /\ Free(p)
    /\ u \in users
    /\ LET i == WalletIdx(u)
       IN  wallets' = IF i = 0 THEN Append(wallets, [NewWallet(u) EXCEPT !.status = "active"])
                               ELSE [wallets EXCEPT ![i].status = "active"]
    /\ proc' = [proc EXCEPT ![p] =
          Finish(Started("activate", u, Null),
                 Resp(TRUE, "activate", "Wallet activated successfully"))]
    /\ UNCHANGED <<stations, fares, journeys, nextJid, users, clock>>

\* Wallet.activate_wallet: find_one_and_update {"user_id": u} -> status active
Activate(p, u) ==
    /\ Free(p)
    /\ u \in users
    /\ LET i == WalletIdx(u)
       IN  IF i = 0
           THEN /\ wallets' = wallets
                /\ proc' = [proc EXCEPT ![p] =
                      Finish(Started("activate", u, Null),
                             Resp(FALSE, "activate", "Wallet not found"))]
           ELSE /\ wallets' = [wallets EXCEPT ![i].status = "active"]
                /\ proc' = [proc EXCEPT ![p] =
                      Finish(Started("activate", u, Null),
                             Resp(TRUE, "activate", "Wallet activated successfully"))]
    /\ UNCHANGED <<stations, fares, journeys, nextJid, users, clock>>

(***************************************************************************)
(* delete_user (routers/admin.py): the cascading delete of a rider         *)
(***************************************************************************)
\* get_user_by_id finds the user
DeleteStart(p, u) ==
    /\ Free(p)
    /\ u \in users
    /\ proc' = [proc EXCEPT ![p] = [Started("delete", u, Null) EXCEPT !.pc = "d_wallet"]]
    /\ UNCHANGED <<stations, fares, journeys, nextJid, wallets, users, clock>>

\* db.wallets.delete_one({"user_id": u})
DeleteWallet(p) ==
    /\ proc[p].pc = "d_wallet"
    /\ wallets' = IF WalletIdx(proc[p].user) = 0 THEN wallets
                  ELSE RemoveAt(wallets, WalletIdx(proc[p].user))
    /\ proc' = [proc EXCEPT ![p].pc = "d_journeys"]
    /\ UNCHANGED <<stations, fares, journeys, nextJid, users, clock>>

\* db.journeys.delete_many({"user_id": u})
DeleteJourneys(p) ==
    /\ proc[p].pc = "d_journeys"
    /\ journeys' = SelectNot(journeys, proc[p].user)
    /\ proc' = [proc EXCEPT ![p].pc = "d_user"]
    /\ UNCHANGED <<stations, fares, nextJid, wallets, users, clock>>

\* db.users.delete_one({"_id": u})
DeleteUser(p) ==
    /\ proc[p].pc = "d_user"
    /\ users' = users \ {proc[p].user}
    /\ proc' = [proc EXCEPT ![p] = Finish(@, Resp(TRUE, "delete", "User deleted"))]
    /\ UNCHANGED <<stations, fares, journeys, nextJid, wallets, clock>>

(***************************************************************************)
(* The wall clock (datetime.utcnow()).                                     *)
(***************************************************************************)
Tick ==
    /\ clock < MaxClock
    /\ clock' = clock + 1
    /\ UNCHANGED <<stations, fares, journeys, nextJid, wallets, users, proc>>

(***************************************************************************)
(* Specification of the gate handlers.  The riders are registered, each    *)
(* with the wallet register_user created for them (the latest registered   *)
(* first); stations A and B are active, C is soft-deleted; one fare rule   *)
(* A -> B is stored.  Spec holds the clock still: its handlers finish      *)
(* within the hour.                                                        *)
(***************************************************************************)
Init ==
    /\ stations = << [station_code |-> "A", is_active |-> TRUE],
                     [station_code |-> "B", is_active |-> TRUE],
                     [station_code |-> "C", is_active |-> FALSE] >>
    /\ fares = << [from_station_id |-> 1, to_station_id |-> 2,
                   from_station_code |-> "A", to_station_code |-> "B",
                   distance_km |-> 10, base_fare |-> 30, is_active |-> TRUE] >>
    /\ journeys = <<>>
    /\ nextJid = 1
    /\ wallets = [i \in 1..NumRiders |-> NewWallet(NumRiders + 1 - i)]
    /\ users = Riders
    /\ clock = 0
    /\ proc = [p \in Procs |-> IdleProc]

Next ==
    \/ \E p \in Procs, u \in GateRiders, code \in Codes : EntryStation(p, u, code)
    \/ \E p \in Procs : EntryBalance(p)
    \/ \E p \in Procs : EntryFindOngoing(p)
    \/ \E p \in Procs : EntryInsert(p)
    \/ \E p \in Procs, u \in GateRiders, code \in Codes : ExitGetOngoing(p, u, code)
    \/ \E p \in Procs : ExitStation(p)
    \/ \E p \in Procs : ExitFare(p)
    \/ \E p \in Procs : ExitBalance(p)
    \/ \E p \in Procs : ExitDebit(p)
    \/ \E p \in Procs : ExitCompleteFind(p)
    \/ \E p \in Procs : ExitCompleteUpdate(p)
    \/ \E p \in Procs : ExitCompleteReread(p)
    \/ \E p \in Procs, u \in GateRiders : CancelGetOngoing(p, u)
    \/ \E p \in Procs : CancelUpdate(p)
    \/ \E p \in Procs, u \in GateRiders, a \in RechargeAmounts : Recharge(p, u, a)
    \/ \E p \in Procs, u \in GateRiders : Activate(p, u)
    \/ \E p \in Procs, u \in GateRiders : DeleteStart(p, u)
    \/ \E p \in Procs : DeleteWallet(p)
    \/ \E p \in Procs : DeleteJourneys(p)
    \/ \E p \in Procs : DeleteUser(p)

Spec == Init /\ [][Next]_vars

(***************************************************************************)
(* Specification of whole trips: one request at a time (handler slot 1),   *)
(* with the clock running, so that an exit may come after the journey's    *)
(* deadline.                                                               *)
(***************************************************************************)
TripProcs == {1}

NextTrip ==
    \/ \E p \in TripProcs, u \in GateRiders, code \in Codes : EntryStation(p, u, code)
    \/ \E p \in TripProcs : EntryBalance(p)
    \/ \E p \in TripProcs : EntryFindOngoing(p)
    \/ \E p \in TripProcs : EntryInsert(p)
    \/ \E p \in TripProcs, u \in GateRiders, code \in Codes : ExitGetOngoing(p, u, code)
    \/ \E p \in TripProcs : ExitStation(p)
    \/ \E p \in TripProcs : ExitFare(p)
    \/ \E p \in TripProcs : ExitBalance(p)
    \/ \E p \in TripProcs : ExitDebit(p)
    \/ \E p \in TripProcs : ExitCompleteFind(p)
    \/ \E p \in TripProcs : ExitCompleteUpdate(p)
    \/ \E p \in TripProcs : ExitCompleteReread(p)
    \/ \E p \in TripProcs, u \in GateRiders : CancelGetOngoing(p, u)
    \/ \E p \in TripProcs : CancelUpdate(p)
    \/ \E p \in TripProcs, u \in GateRiders, a \in RechargeAmounts : Recharge(p, u, a)
    \/ \E p \in TripProcs, u \in GateRiders : Activate(p, u)
    \/ Tick

SpecTrip == Init /\ [][NextTrip]_vars

(***************************************************************************)
(* The fare table (routers/stations.py, models/fare.py): an admin creates  *)
(* or updates rules, a user asks for the price of a pair of codes.  One    *)
(* request at a time, starting from an empty table.                        *)
(***************************************************************************)
\* the document Fare.create_fare stores; the ids are those of the stations
\* the route resolved the codes to
NewFare(from, to, distance, base) ==
    [from_station_id |-> StationIdx(from), to_station_id |-> StationIdx(to),
     from_station_code |-> Upper(from), to_station_code |-> Upper(to),
     distance_km |-> distance, base_fare |-> base, is_active |-> TRUE]

\* POST /fares: both codes must resolve to active stations (404 otherwise);
\* Fare.create_fare updates the rule stored for that pair of station ids, or
\* inserts one
CreateFare(p, from, to, distance, base) ==
    /\ Free(p)
    /\ IF StationIdx(from) = 0 \/ StationIdx(to) = 0
       THEN /\ fares' = fares
            /\ proc' = [proc EXCEPT ![p] =
                  Finish(Started("create_fare", 0, Null),
                         Resp(FALSE, "create_fare", "Station not found"))]
       ELSE LET doc == NewFare(from, to, distance, base)
                i == First({k \in 1..Len(fares) :
                               /\ fares[k].from_station_id = doc.from_station_id
                               /\ fares[k].to_station_id = doc.to_station_id})
            IN  /\ fares' = IF i = 0 THEN Append(fares, doc)
                                     ELSE [fares EXCEPT ![i] = doc]
                /\ proc' = [proc EXCEPT ![p] =
                      Finish(Started("create_fare", 0, Null),
                             Resp(TRUE, "create_fare", "Fare created/updated successfully"))]
    /\ UNCHANGED <<stations, journeys, nextJid, wallets, users, clock>>

\* GET /fares/calculate: Fare.calculate_fare of the two codes as given; the
\* ValueError of a pair without a rule becomes a 404.  The response stays
\* with the codes that were asked for.
PriceFare(p, from, to) ==
    /\ Free(p)
    /\ LET f == CalculateFare(from, to)
           r == [Started("price", 0, to) EXCEPT !.fare = f]
           resp == IF f.found THEN Resp(TRUE, "price", "Fare calculated")
                              ELSE Resp(FALSE, "price", "No fare found")
       IN  proc' = [proc EXCEPT ![p] =
                       [Finish(r, resp) EXCEPT !.origin = from, !.code = to]]
    /\ UNCHANGED <<stations, fares, journeys, nextJid, wallets, users, clock>>

InitFare ==
    /\ stations = << [station_code |-> "A", is_active |-> TRUE],
                     [station_code |-> "B", is_active |-> TRUE],
                     [station_code |-> "C", is_active |-> FALSE] >>
    /\ fares = <<>>
    /\ journeys = <<>>
    /\ nextJid = 1
    /\ wallets = [i \in 1..NumRiders |-> NewWallet(NumRiders + 1 - i)]
    /\ users = Riders
    /\ clock = 0
    /\ proc = [p \in Procs |-> IdleProc]

NextFare ==
    \/ \E p \in TripProcs, from \in Codes, to \in Codes, offer \in FareOffers :
          CreateFare(p, from, to, offer.distance_km, offer.base_fare)
    \/ \E p \in TripProcs, from \in Codes, to \in Codes : PriceFare(p, from, to)

SpecFare == InitFare /\ [][NextFare]_vars

(***************************************************************************)
(* Concurrent pricing: two requests for a price in flight, each at one of  *)
(* the two find_one of calculate_fare, while an admin stores rules.        *)
(***************************************************************************)
\* the codes the price requests name
PriceCodes == {"a", "B"}

\* the dict calculate_fare returns for the rule it found
FareResult(i, from, to) ==
    [found |-> TRUE, from_station |-> Upper(from), to_station |-> Upper(to),
     distance_km |-> fares[i].distance_km,
     base_fare |-> fares[i].base_fare,
     service_charge |-> ServiceCharge,
     total_fare |-> fares[i].base_fare + ServiceCharge]

\* calculate_fare: find_one of the stored direction; a hit is priced
PriceForward(p, from, to) ==
    /\ Free(p)
    /\ LET i == First({k \in 1..Len(fares) :
                          /\ fares[k].from_station_code = Upper(from)
                          /\ fares[k].to_station_code = Upper(to)
                          /\ fares[k].is_active})
       IN  proc' = [proc EXCEPT ![p] =
             IF i # 0
             THEN [Finish([Started("price", 0, to) EXCEPT !.fare = FareResult(i, from, to)],
                          Resp(TRUE, "price", "Fare calculated"))
                      EXCEPT !.origin = from, !.code = to]
             ELSE [Started("price", 0, to) EXCEPT !.pc = "f_reverse", !.origin = from]]
    /\ UNCHANGED <<stations, fares, journeys, nextJid, wallets, users, clock>>

\* the reverse lookup that also stores what it found under the direction asked
PriceReverseStoring(p) ==
    /\ proc[p].pc = "f_reverse"
    /\ LET from == proc[p].origin
           to == proc[p].code
           i == First({k \in 1..Len(fares) :
                          /\ fares[k].from_station_code = Upper(to)
                          /\ fares[k].to_station_code = Upper(from)
                          /\ fares[k].is_active})
       IN  /\ fares' = IF i = 0 THEN fares
                       ELSE Append(fares, NewFare(from, to, fares[i].distance_km,
                                                  fares[i].base_fare))
           /\ proc' = [proc EXCEPT ![p] =
                 IF i = 0
                 THEN [Finish([@ EXCEPT !.exc = "No fare found for route"],
                              Resp(FALSE, "price", "No fare found"))
                          EXCEPT !.origin = from, !.code = to]
                 ELSE [Finish([@ EXCEPT !.fare = FareResult(i, from, to)],
                              Resp(TRUE, "price", "Fare calculated"))
                          EXCEPT !.origin = from, !.code = to]]
    /\ UNCHANGED <<stations, journeys, nextJid, wallets, users, clock>>

\* calculate_fare: find_one of the reversed pair; a hit is priced, a miss
\* raises ValueError, which the route answers with a 404
PriceReverse(p) ==
    /\ proc[p].pc = "f_reverse"
    /\ LET from == proc[p].origin
           to == proc[p].code
           i == First({k \in 1..Len(fares) :
                          /\ fares[k].from_station_code = Upper(to)
                          /\ fares[k].to_station_code = Upper(from)
                          /\ fares[k].is_active})
       IN  proc' = [proc EXCEPT ![p] =
             IF i = 0
             THEN [Finish([@ EXCEPT !.exc = "No fare found for route"],
                          Resp(FALSE, "price", "No fare found"))
                      EXCEPT !.origin = from, !.code = to]
             ELSE [Finish([@ EXCEPT !.fare = FareResult(i, from, to)],
                          Resp(TRUE, "price", "Fare calculated"))
                      EXCEPT !.origin = from, !.code = to]]
    /\ UNCHANGED <<stations, fares, journeys, nextJid, wallets, users, clock>>

NextPrice ==
    \/ \E p \in TripProcs, from \in PriceCodes, to \in PriceCodes, offer \in FareOffers :
          /\ Len(fares) < MaxRules
          /\ CreateFare(p, from, to, offer.distance_km, offer.base_fare)
    \/ \E p \in Procs, from \in PriceCodes, to \in PriceCodes : PriceForward(p, from, to)
    \/ \E p \in Procs : PriceReverse(p)

SpecPrice == InitFare /\ [][NextPrice]_vars

(***************************************************************************)
(* Accounts (models/wallet.py): create_wallet_for_user as any caller may   *)
(* call it, two calls at a time, with activation, recharges and entries at *)
(* the gate alongside.  No wallet is stored at the start.                  *)
(***************************************************************************)
\* create_wallet_for_user inserting without looking for a stored wallet
CreateWalletFindSkipped(p, u) ==
    /\ Free(p)
    /\ proc' = [proc EXCEPT ![p] = [Started("create_wallet", u, Null) EXCEPT !.pc = "w_insert"]]
    /\ UNCHANGED <<stations, fares, journeys, nextJid, wallets, users, clock>>

\* create_wallet_for_user: find_one {"user_id": u}; a stored wallet is returned
CreateWalletFind(p, u) ==
    /\ Free(p)
    /\ LET i == WalletIdx(u)
       IN  proc' = [proc EXCEPT ![p] =
             IF i # 0
             THEN [Finish(Started("create_wallet", u, Null),
                          Resp(TRUE, "create_wallet", "Wallet exists"))
                      EXCEPT !.wallet = wallets[i]]
             ELSE [Started("create_wallet", u, Null) EXCEPT !.pc = "w_insert"]]
    /\ UNCHANGED <<stations, fares, journeys, nextJid, wallets, users, clock>>

\* create_wallet_for_user: insert_one of the new wallet, which is returned
CreateWalletInsert(p) ==
    /\ proc[p].pc = "w_insert"
    /\ wallets' = Append(wallets, NewWallet(proc[p].user))
    /\ proc' = [proc EXCEPT ![p] =
          [Finish(@, Resp(TRUE, "create_wallet", "Wallet created"))
              EXCEPT !.wallet = NewWallet(proc[p].user)]]
    /\ UNCHANGED <<stations, fares, journeys, nextJid, users, clock>>

InitAccount ==
    /\ stations = << [station_code |-> "A", is_active |-> TRUE],
                     [station_code |-> "B", is_active |-> TRUE],
                     [station_code |-> "C", is_active |-> FALSE] >>
    /\ fares = <<>>
    /\ journeys = <<>>
    /\ nextJid = 1
    /\ wallets = <<>>
    /\ users = Riders
    /\ clock = 0
    /\ proc = [p \in Procs |-> IdleProc]

NextAccount ==
    \/ \E p \in Procs, u \in Riders : CreateWalletFind(p, u)
    \/ \E p \in Procs : CreateWalletInsert(p)
    \/ \E p \in Procs, u \in GateRiders : Activate(p, u)
    \/ \E p \in Procs, u \in GateRiders, a \in RechargeAmounts : Recharge(p, u, a)
    \/ \E p \in Procs, u \in GateRiders, code \in Codes : EntryStation(p, u, code)
    \/ \E p \in Procs : EntryBalance(p)
    \/ \E p \in Procs : EntryFindOngoing(p)
    \/ \E p \in Procs : EntryInsert(p)

SpecAccount == InitAccount /\ [][NextAccount]_vars

(***************************************************************************)
(* Storage failures.  start_journey, calculate_fare and complete_journey   *)
(* re-raise what the driver raises, and the except clause of the gate      *)
(* handler answers "System error".  (get_station_by_code,                  *)
(* get_ongoing_journey, get_balance and add_transaction swallow the        *)
(* exception themselves and are not part of this.)  One request at a time, *)
(* its response kept in either slot.                                       *)
(***************************************************************************)
FaultPcs == {"e_find", "e_insert", "x_fare", "x_find", "x_update", "x_reread"}

StorageFault(p) ==
    /\ proc[p].pc \in FaultPcs
    /\ proc' = [proc EXCEPT ![p] =
          Finish([@ EXCEPT !.exc = "storage failure"],
                 Resp(FALSE, IF proc[p].op = "entry" THEN "deny_entry" ELSE "deny_exit",
                      "System error"))]
    /\ UNCHANGED <<stations, fares, journeys, nextJid, wallets, users, clock>>

\* no request is being served
Quiet == \A q \in Procs : Free(q)

NextFault ==
    \/ \E p \in Procs, u \in GateRiders, code \in Codes : Quiet /\ EntryStation(p, u, code)
    \/ \E p \in Procs : EntryBalance(p)
    \/ \E p \in Procs : EntryFindOngoing(p)
    \/ \E p \in Procs : EntryInsert(p)
    \/ \E p \in Procs, u \in GateRiders, code \in Codes : Quiet /\ ExitGetOngoing(p, u, code)
    \/ \E p \in Procs : ExitStation(p)
    \/ \E p \in Procs : ExitFare(p)
    \/ \E p \in Procs : ExitBalance(p)
    \/ \E p \in Procs : ExitDebit(p)
    \/ \E p \in Procs : ExitCompleteFind(p)
    \/ \E p \in Procs : ExitCompleteUpdate(p)
    \/ \E p \in Procs : ExitCompleteReread(p)
    \/ \E p \in Procs, u \in GateRiders, a \in RechargeAmounts : Quiet /\ Recharge(p, u, a)
    \/ \E p \in Procs : StorageFault(p)

SpecFault == Init /\ [][NextFault]_vars

\* the storage operation the gate handler in slot p awaits returns, and the
\* event loop resumes the handler
Resume(p) ==
    \/ EntryBalance(p)
    \/ EntryFindOngoing(p)
    \/ EntryInsert(p)
    \/ ExitStation(p)
    \/ ExitFare(p)
    \/ ExitBalance(p)
    \/ ExitDebit(p)
    \/ ExitCompleteFind(p)
    \/ ExitCompleteUpdate(p)
    \/ ExitCompleteReread(p)

\* every awaited storage operation returns or raises: a handler in flight is
\* resumed
SpecFaultLive == SpecFault /\ \A p \in Procs : WF_vars(Resume(p))

(***************************************************************************)
(* Two riders at the gates: each handler slot serves the requests of one   *)
(* rider, so a request of either rider may be in flight at every await of  *)
(* the other's.  Riders use the stations A and B.                          *)
(***************************************************************************)
SlotRiders == Procs \cap Riders

RiderEntryCodes == {"a", "B"}

RiderExitCodes == {"a", "B"}

RiderRecharges == {35}

NextRiders ==
    \/ \E u \in SlotRiders, code \in RiderEntryCodes : EntryStation(u, u, code)
    \/ \E p \in Procs : EntryBalance(p)
    \/ \E p \in Procs : EntryFindOngoing(p)
    \/ \E p \in Procs : EntryInsert(p)
    \/ \E u \in SlotRiders, code \in RiderExitCodes : ExitGetOngoing(u, u, code)
    \/ \E p \in Procs : ExitStation(p)
    \/ \E p \in Procs : ExitFare(p)
    \/ \E p \in Procs : ExitBalance(p)
    \/ \E p \in Procs : ExitDebit(p)
    \/ \E p \in Procs : ExitCompleteFind(p)
    \/ \E p \in Procs : ExitCompleteUpdate(p)
    \/ \E p \in Procs : ExitCompleteReread(p)
    \/ \E u \in SlotRiders : CancelGetOngoing(u, u)
    \/ \E p \in Procs : CancelUpdate(p)
    \/ \E u \in SlotRiders, a \in RiderRecharges : Recharge(u, u, a)

SpecRiders == Init /\ [][NextRiders]_vars

(***************************************************************************)
(* Vocabulary of the properties.                                           *)
(***************************************************************************)
OngoingOf(u) ==
    {i \in 1..Len(journeys) : journeys[i].user_id = u /\ journeys[i].status = "ongoing"}

RECURSIVE SumOf(_, _)
\* sum of the amounts of the transactions of log s whose type is t
SumOf(s, t) ==
    IF s = <<>> THEN 0
    ELSE (IF Head(s).type = t THEN Head(s).amount ELSE 0) + SumOf(Tail(s), t)

\* the debit transactions of wallet w whose reference is journey id
DebitsFor(w, id) ==
    {k \in 1..Len(w.transactions) :
        w.transactions[k].type = "debit" /\ w.transactions[k].reference = id}

\* an exit handler between its debit and its return
AfterDebit(p) == proc[p].op = "exit" /\ proc[p].pc \in {"x_find", "x_update", "x_reread"}

\* handler p takes the debit step of exit in this transition
DebitStep(p) == proc[p].pc = "x_debit" /\ proc'[p].pc = "x_find"

(***************************************************************************)
(* C1. Single active trip: a rider never has more than one journey with    *)
(* status ongoing, whatever the interleaving of entry events.              *)
(***************************************************************************)
C1_SingleActiveTrip == \A u \in Riders : Cardinality(OngoingOf(u)) <= 1

(***************************************************************************)
(* C2. No negative balance: every account's balance is >= 0 in every       *)
(* reachable state.                                                        *)
(***************************************************************************)
C2_NoNegativeBalance == \A i \in 1..Len(wallets) : wallets[i].balance >= 0

(***************************************************************************)
(* C3. The debit is the authoritative sufficiency check: a debit step      *)
(* that finds the balance below its amount reports failure and leaves the  *)
(* balance and the log as they are.                                        *)
(***************************************************************************)
C3_DebitChecksFunds ==
    [][\A p \in Procs :
          (/\ DebitStep(p)
           /\ WalletIdx(proc[p].user) # 0
           /\ wallets[WalletIdx(proc[p].user)].balance < proc[p].fare.total_fare)
          => (wallets' = wallets /\ ~proc'[p].debited)]_vars

(***************************************************************************)
(* C4. Two concurrent debits: when an exit of the same rider is in flight  *)
(* with its debit applied and the balance left does not cover a second     *)
(* debit, the second debit is not applied.                                 *)
(***************************************************************************)
C4_ConcurrentDebitsOneWins ==
    [][\A p \in Procs, q \in Procs :
          (/\ p # q
           /\ DebitStep(p)
           /\ AfterDebit(q) /\ proc[q].debited /\ proc[q].user = proc[p].user
           /\ WalletIdx(proc[p].user) # 0
           /\ wallets[WalletIdx(proc[p].user)].balance < proc[p].fare.total_fare)
          => wallets' = wallets]_vars

(***************************************************************************)
(* C5. Balance and log in sync: in every reachable state every account's   *)
(* balance is the sum of its credits minus the sum of its debits.          *)
(***************************************************************************)
C5_BalanceMatchesLog ==
    \A i \in 1..Len(wallets) :
        wallets[i].balance = SumOf(wallets[i].transactions, "credit")
                             - SumOf(wallets[i].transactions, "debit")

\* reached: an account whose log holds a credit and the debits of two exits
C5_Witness ==
    \E i \in 1..Len(wallets) :
        /\ SumOf(wallets[i].transactions, "credit") > 0
        /\ Cardinality({k \in 1..Len(wallets[i].transactions) :
                           wallets[i].transactions[k].type = "debit"}) >= 2

(***************************************************************************)
(* C6. Each journey is debited at most once: no log holds two debit        *)
(* transactions whose reference is the same journey id.                    *)
(***************************************************************************)
C6_JourneyDebitedOnce ==
    \A i \in 1..Len(wallets), id \in 1..MaxJourneys :
        Cardinality(DebitsFor(wallets[i], id)) <= 1

(***************************************************************************)
(* C7. A denied exit leaves state untouched: an exit that returns a denial *)
(* has applied no debit.                                                   *)
(***************************************************************************)
C7_DeniedExitUntouched ==
    \A p \in Procs :
        (proc[p].pc = "done" /\ proc[p].resp.action = "deny_exit") => ~proc[p].debited

C9_OneWinner ==
    \A p \in Procs, q \in Procs :
        ~(/\ proc[p].op = "exit" /\ proc[p].pc \in {"x_reread", "done"}
          /\ proc[q].op = "cancel" /\ proc[q].pc = "done" /\ proc[q].resp.success
          /\ proc[p].cjid # 0 /\ proc[p].cjid = proc[q].cjid)

(***************************************************************************)
(* C10. Emergency cancel applies no fare: no debit transaction references  *)
(* a journey whose status is emergency_cancelled.                          *)
(***************************************************************************)
C10_NoFareOnCancelled ==
    \A j \in 1..Len(journeys), i \in 1..Len(wallets) :
        journeys[j].status = "emergency_cancelled"
        => DebitsFor(wallets[i], journeys[j].journey_id) = {}

(***************************************************************************)
(* C11. completed and emergency_cancelled are terminal: no step changes    *)
(* the status of a journey that is completed or emergency_cancelled.       *)
(***************************************************************************)
C11_TerminalStatus ==
    [][\A i \in 1..Len(journeys), k \in 1..Len(journeys') :
          (/\ journeys[i].status \in {"completed", "emergency_cancelled"}
           /\ journeys'[k]._id = journeys[i]._id)
          => journeys'[k].status = journeys[i].status]_vars


(***************************************************************************)
(* A full trip A -> B of one rider, one request at a time.                 *)
(***************************************************************************)
ExitPcs == {"x_station", "x_fare", "x_balance", "x_debit", "x_find", "x_update", "x_reread"}

\* the steps of an entry at A by a rider whose balance reaches the floor and
\* who has no ongoing journey: none denies, and the last one leaves exactly
\* one ongoing journey of the rider, with origin A
EntryLeg(p) ==
    LET r == proc[p]
    IN  (/\ r.pc \in EntryPcs
         /\ Upper(r.code) = "A"
         /\ GetBalance(r.user) >= MinEntryBalance
         /\ OngoingIdx(r.user) = 0
         /\ proc'[p] # r)
        => /\ proc'[p].resp.action # "deny_entry"
           /\ proc'[p].pc = "done" =>
                 /\ proc'[p].resp.action = "allow_entry"
                 /\ Len(journeys') = Len(journeys) + 1
                 /\ Cardinality(OngoingOf(r.user)') = 1
                 /\ \A i \in OngoingOf(r.user)' :
                       /\ journeys'[i].entry_station_code = "A"
                       /\ journeys'[i]._id = proc'[p].jid

\* the steps of the exit at B that follows: none denies, the debit takes 35
\* from the balance and logs it against the journey, the update records the
\* journey as completed with total 35.  `funds' is the balance the exit is
\* assumed to find; with onTimeOnly the steps of a late completion are left out.
ExitLeg(p, funds, onTimeOnly) ==
    LET r == proc[p]
        j == JourneyIdxById(r.jid)
        late == \/ r.pc = "x_find" /\ clock > journeys[j].max_journey_time
                \/ r.pc \in {"x_update", "x_reread"}
                     /\ r.now > journeys[j].max_journey_time
    IN  (/\ r.pc \in ExitPcs
         /\ r.origin = "A"
         /\ Upper(r.code) = "B"
         /\ r.pc \in {"x_station", "x_fare", "x_balance"} => GetBalance(r.user) >= funds
         /\ onTimeOnly => ~late
         /\ proc'[p] # r)
        => /\ proc'[p].resp.action # "deny_exit"
           /\ r.pc = "x_debit" =>
                 LET w == wallets'[WalletIdx(r.user)]
                 IN  /\ GetBalance(r.user)' = GetBalance(r.user) - 35
                     /\ w.transactions[Len(w.transactions)] =
                           [type |-> "debit", amount |-> 35, reference |-> r.jid]
                     /\ Len(w.transactions) =
                           Len(wallets[WalletIdx(r.user)].transactions) + 1
           /\ r.pc = "x_update" =>
                 /\ journeys'[j].status = "completed"
                 /\ journeys'[j].exit_station_code = "B"
                 /\ journeys'[j].fare_details.total_fare = 35
           /\ proc'[p].pc = "done" => proc'[p].resp.action = "allow_exit"

(* C12 as stated. With a balance that reaches the entry floor and the rule *)
(* A -> B of base 30, entry at A is allowed and leaves one ongoing journey *)
(* from A; the following exit at B is allowed, debits exactly 35 and       *)
(* records the journey as completed with total fare 35.                    *)
C12_RoundTrip ==
    [][\A p \in TripProcs : EntryLeg(p) /\ ExitLeg(p, MinEntryBalance, FALSE)]_vars

(* C12, amended. The same, for an exit that finds a balance of at least    *)
(* the priced total 35 and whose completion is no later than the journey's *)
(* deadline (entry time + 4 hours).                                        *)
C12_RoundTripOnTime ==
    [][\A p \in TripProcs : EntryLeg(p) /\ ExitLeg(p, 35, TRUE)]_vars

\* an allowed exit at B of a journey from A, on time, by an active account
C12_Witness ==
    \E p \in TripProcs :
        /\ proc[p].pc = "done"
        /\ proc[p].resp.action = "allow_exit"
        /\ wallets[WalletIdx(proc[p].user)].status = "active"
        /\ \E i \in 1..Len(journeys) :
              /\ journeys[i]._id = proc[p].cjid
              /\ journeys[i].entry_station_code = "A"
              /\ journeys[i].exit_station_code = "B"
              /\ journeys[i].status = "completed"
              /\ journeys[i].exit_time <= journeys[i].max_journey_time
              /\ journeys[i].fare_details.total_fare = 35


(* C13. For every journey completed by an exit, late exits included, the   *)
(* debit transaction that references the journey has the amount of the     *)
(* total fare recorded in the journey's fare breakdown, penalty included.  *)
C13_DebitIsRecordedTotal ==
    \A i \in 1..Len(journeys) :
        journeys[i].status = "completed" =>
            \A w \in 1..Len(wallets) : \A t \in 1..Len(wallets[w].transactions) :
                (/\ wallets[w].transactions[t].type = "debit"
                 /\ wallets[w].transactions[t].reference = journeys[i].journey_id)
                => wallets[w].transactions[t].amount = journeys[i].fare_details.total_fare


(* C14. A journey completed strictly after its deadline (entry time + 4    *)
(* hours) records penalty 50, the rule's base price unchanged, and total = *)
(* base + service charge + penalty; a journey completed at or before the   *)
(* deadline records penalty 0 and total = base + service charge.           *)
C14_PenaltyRecordedDistinctly ==
    \A i \in 1..Len(journeys) :
        journeys[i].status = "completed" =>
            LET j == journeys[i]
                f == j.fare_details
                itinerary == f.base_fare + f.service_charge
            IN  /\ j.max_journey_time = j.entry_time + MaxJourneyHours
                /\ f.service_charge = ServiceCharge
                /\ \E k \in 1..Len(fares) :
                      /\ {fares[k].from_station_code, fares[k].to_station_code} =
                            {j.entry_station_code, j.exit_station_code}
                      /\ f.base_fare = fares[k].base_fare
                /\ j.exit_time > j.max_journey_time =>
                      f.penalty_fare = PenaltyFare /\ f.total_fare = itinerary + PenaltyFare
                /\ j.exit_time <= j.max_journey_time =>
                      f.penalty_fare = 0 /\ f.total_fare = itinerary

\* a journey completed after its deadline
C14_Witness ==
    \E i \in 1..Len(journeys) :
        /\ journeys[i].status = "completed"
        /\ journeys[i].exit_time > journeys[i].max_journey_time
        /\ journeys[i].fare_details.penalty_fare = PenaltyFare


(***************************************************************************)
(* Pricing.                                                                *)
(***************************************************************************)
\* the stored active rules from a to b
RulesFor(a, b) ==
    {k \in 1..Len(fares) : /\ fares[k].from_station_code = a
                           /\ fares[k].to_station_code = b
                           /\ fares[k].is_active}

(* C15. Fare symmetry: for distinct codes A and B with a rule stored in    *)
(* either or both directions, price(A,B) and price(B,A) return the same    *)
(* base price, distance and total.                                         *)
C15_FareSymmetry ==
    \A a \in Codes, b \in Codes :
        (/\ Upper(a) # Upper(b)
         /\ RulesFor(Upper(a), Upper(b)) \cup RulesFor(Upper(b), Upper(a)) # {})
        => /\ CalculateFare(a, b).found
           /\ CalculateFare(b, a).found
           /\ CalculateFare(a, b).base_fare = CalculateFare(b, a).base_fare
           /\ CalculateFare(a, b).distance_km = CalculateFare(b, a).distance_km
           /\ CalculateFare(a, b).total_fare = CalculateFare(b, a).total_fare

(* C16. Same-checkpoint pricing: whatever rules are stored (none, or a     *)
(* rule A -> A included), a request for price(A,A) succeeds and returns an *)
(* itinerary of distance zero with the fixed service charge.               *)
C16_SameCheckpointPriced ==
    \A p \in TripProcs :
        (/\ proc[p].pc = "done"
         /\ proc[p].op = "price"
         /\ Upper(proc[p].origin) = Upper(proc[p].code))
        => /\ proc[p].resp.success
           /\ proc[p].fare.found
           /\ proc[p].fare.distance_km = 0
           /\ proc[p].fare.service_charge = ServiceCharge

(* C17. Fare resolution for A # B: the price uses the active rule stored   *)
(* as (A,B) if there is one, otherwise the active rule stored as (B,A),    *)
(* and its total is that rule's base price plus the flat service charge 5; *)
(* with no active rule in either direction the request fails and returns   *)
(* no itinerary.                                                           *)
C17_FareResolution ==
    \A p \in TripProcs :
        (/\ proc[p].pc = "done"
         /\ proc[p].op = "price"
         /\ Upper(proc[p].origin) # Upper(proc[p].code))
        => LET a == Upper(proc[p].origin)
               b == Upper(proc[p].code)
               f == proc[p].fare
               From(S) == /\ proc[p].resp.success
                          /\ f.found
                          /\ f.from_station = a
                          /\ f.to_station = b
                          /\ \E k \in S : /\ \A n \in S : k <= n
                                          /\ f.base_fare = fares[k].base_fare
                                          /\ f.distance_km = fares[k].distance_km
                          /\ f.service_charge = 5
                          /\ f.total_fare = f.base_fare + 5
           IN  IF RulesFor(a, b) # {} THEN From(RulesFor(a, b))
               ELSE IF RulesFor(b, a) # {} THEN From(RulesFor(b, a))
               ELSE ~proc[p].resp.success /\ f = NoFare

\* a price answered from the rule stored in the reversed direction
C17_Witness ==
    \E p \in TripProcs :
        /\ proc[p].pc = "done"
        /\ proc[p].op = "price"
        /\ proc[p].fare.found
        /\ Upper(proc[p].origin) # Upper(proc[p].code)
        /\ RulesFor(Upper(proc[p].origin), Upper(proc[p].code)) = {}
        /\ RulesFor(Upper(proc[p].code), Upper(proc[p].origin)) # {}


(***************************************************************************)
(* Entry.                                                                  *)
(***************************************************************************)
\* a step of the entry handler in slot p
EntryStep(p) == proc'[p] # proc[p] /\ proc'[p].op = "entry"

(* C18. start_journey called for a rider who has an ongoing journey fails, *)
(* creates no journey and leaves every journey, the ongoing one included,  *)
(* as it was.                                                              *)
C18_StartRejectsWhenOngoing ==
    [][\A p \in Procs :
          (/\ proc[p].pc = "e_find"
           /\ OngoingIdx(proc[p].user) # 0
           /\ proc'[p] # proc[p])
          => /\ proc'[p].pc = "done"
             /\ ~proc'[p].resp.success
             /\ proc'[p].resp.action = "deny_entry"
             /\ journeys' = journeys
             /\ nextJid' = nextJid]_vars

\* an entry refused by start_journey
C18_Witness ==
    \E p \in Procs :
        /\ proc[p].pc = "done"
        /\ proc[p].op = "entry"
        /\ proc[p].resp.message = "System error"
        /\ OngoingOf(proc[p].user) # {}

(* C19. An entry is allowed only after its code resolved to an active      *)
(* station, its balance read was at least the floor 20 and its lookup      *)
(* found no ongoing journey of the rider, each at the time of that check;  *)
(* the allowed entry adds exactly one journey: ongoing, of that rider,     *)
(* with that station as origin.                                            *)
C19_EntryAllowedOnlyIf ==
    [][\A p \in Procs :
          EntryStep(p) =>
            /\ proc'[p].pc = "e_balance" =>
                  \E i \in 1..Len(stations) :
                      /\ stations[i].station_code = Upper(proc'[p].code)
                      /\ stations[i].is_active
            /\ proc'[p].pc = "e_find" => GetBalance(proc[p].user) >= 20
            /\ proc'[p].pc = "e_insert" => OngoingOf(proc[p].user) = {}
            /\ proc'[p].resp.action = "allow_entry" =>
                  /\ proc[p].pc = "e_insert"
                  /\ Len(journeys') = Len(journeys) + 1
                  /\ SubSeq(journeys', 1, Len(journeys)) = journeys
                  /\ journeys'[Len(journeys')].status = "ongoing"
                  /\ journeys'[Len(journeys')].user_id = proc[p].user
                  /\ journeys'[Len(journeys')].entry_station_code = Upper(proc[p].code)
            /\ proc'[p].pc \in {"e_find", "e_insert"} => proc[p].pc \in EntryPcs
            /\ proc[p].pc = "e_insert" => proc'[p].resp.action = "allow_entry"]_vars

\* an allowed entry and the journey it started
C19_Witness ==
    \E p \in Procs :
        /\ proc[p].pc = "done"
        /\ proc[p].resp.action = "allow_entry"
        /\ \E i \in OngoingOf(proc[p].user) : journeys[i]._id = proc[p].jid

(* C20. Every step of an entry, allowed or denied, leaves the balance and  *)
(* the transaction log of every wallet unchanged; a step of an entry that  *)
(* is not the allowing one creates and changes no journey.                 *)
C20_EntryFrame ==
    [][\A p \in Procs :
          EntryStep(p) =>
            /\ wallets' = wallets
            /\ proc'[p].resp.action # "allow_entry" => journeys' = journeys]_vars

\* an entry denied at the floor, with a journey stored and a log to keep
C20_Witness ==
    \E p \in Procs :
        /\ proc[p].pc = "done"
        /\ proc[p].resp.action = "deny_entry"
        /\ proc[p].resp.message = "Insufficient balance"
        /\ journeys # <<>>
        /\ wallets[WalletIdx(proc[p].user)].transactions # <<>>


(***************************************************************************)
(* Reasons of the denials.                                                 *)
(***************************************************************************)
\* the handler in slot p answered after catching exception e
Caught(p, op, e) == proc[p].pc = "done" /\ proc[p].op = op /\ proc[p].exc = e

(* C21. An entry for a rider who has an ongoing journey is denied, and the *)
(* response it gets differs from the response of an entry that hit a       *)
(* storage failure.                                                        *)
C21_AlreadyOngoingDistinct ==
    \A p \in Procs :
        Caught(p, "entry", "User has ongoing journey") =>
            /\ proc[p].resp.action = "deny_entry"
            /\ \A q \in Procs :
                  Caught(q, "entry", "storage failure") => proc[q].resp # proc[p].resp

(* C22. An exit whose pair of stations has no fare rule in either          *)
(* direction is denied before any debit, and the response it gets differs  *)
(* from the response of an exit that hit a storage failure.                *)
C22_NoFareDistinct ==
    \A p \in Procs :
        Caught(p, "exit", "No fare found for route") =>
            /\ proc[p].resp.action = "deny_exit"
            /\ ~proc[p].debited
            /\ \A q \in Procs :
                  Caught(q, "exit", "storage failure") => proc[q].resp # proc[p].resp


\* a step of the exit handler in slot p
ExitStep(p) == proc'[p] # proc[p] /\ proc'[p].op = "exit"

(* C23. The exit evaluates its checks in the order: ongoing journey,       *)
(* station, fare, balance, and stops at the first that fails, whatever the *)
(* later ones would give; nothing is debited before all four passed.       *)
C23_ExitCheckOrder ==
    [][\A p \in TripProcs :
          ExitStep(p) =>
            LET r == proc[p]
                n == proc'[p]
                denied(m) == n.pc = "done" /\ n.resp.action = "deny_exit" /\ n.resp.message = m
            IN  /\ r.pc \notin ExitPcs =>
                      IF OngoingOf(n.user) = {} THEN denied("No journey ongoing")
                                                ELSE n.pc = "x_station"
                /\ r.pc = "x_station" =>
                      IF \A i \in 1..Len(stations) :
                             ~(stations[i].station_code = Upper(r.code) /\ stations[i].is_active)
                      THEN denied("Invalid station")
                      ELSE n.pc = "x_fare"
                /\ r.pc = "x_fare" =>
                      IF RulesFor(r.origin, Upper(r.code)) \cup RulesFor(Upper(r.code), r.origin) = {}
                      THEN n.pc = "done" /\ n.resp.action = "deny_exit" /\ ~n.debited
                      ELSE n.pc = "x_balance"
                /\ r.pc = "x_balance" =>
                      IF GetBalance(r.user) < r.fare.total_fare THEN denied("Low balance")
                                                                ELSE n.pc = "x_debit"
                /\ wallets' # wallets => r.pc = "x_debit"]_vars

\* an exit denied for its station while its fare and its balance would fail too
C23_Witness ==
    \E p \in TripProcs :
        /\ proc[p].pc = "done"
        /\ proc[p].op = "exit"
        /\ proc[p].resp.message = "Invalid station"
        /\ GetBalance(proc[p].user) < 30 + ServiceCharge
        /\ \A i \in 1..Len(fares) : fares[i].from_station_code # "C" /\ fares[i].to_station_code # "C"


(***************************************************************************)
(* Accounts.                                                               *)
(***************************************************************************)
\* the stored wallets of rider u
WalletsOf(u) == {i \in 1..Len(wallets) : wallets[i].user_id = u}

\* a step of create_wallet_for_user in slot p
CreateStep(p) == proc'[p] # proc[p] /\ proc'[p].op = "create_wallet"

(* C24. create_wallet_for_user for a rider who has an account returns that *)
(* account as stored and changes nothing; for a rider without one, with no *)
(* other call inserting in between, it stores exactly one account with     *)
(* zero balance and returns it.  So two calls in sequence return the same  *)
(* account and leave one account.                                          *)
C24_IdempotentCreation ==
    [][\A p \in Procs :
          CreateStep(p) =>
            LET r == proc[p]
                n == proc'[p]
                u == n.user
            IN  /\ (r.pc # "w_insert" /\ WalletsOf(u) # {}) =>
                      /\ n.pc = "done"
                      /\ n.resp.success
                      /\ wallets' = wallets
                      /\ \E i \in WalletsOf(u) : n.wallet = wallets[i]
                /\ (r.pc # "w_insert" /\ WalletsOf(u) = {}) =>
                      n.pc = "w_insert" /\ wallets' = wallets
                /\ (r.pc = "w_insert" /\ WalletsOf(u) = {}) =>
                      /\ n.pc = "done"
                      /\ n.resp.success
                      /\ Cardinality({i \in 1..Len(wallets') : wallets'[i].user_id = u}) = 1
                      /\ SubSeq(wallets', 1, Len(wallets)) = wallets
                      /\ n.wallet = wallets'[Len(wallets')]
                      /\ n.wallet.user_id = u
                      /\ n.wallet.balance = 0
                      /\ n.wallet.status = "inactive"
                      /\ n.wallet.transactions = <<>>]_vars

\* a second call that returned the one stored account, recharged meanwhile
C24_Witness ==
    \E p \in Procs :
        /\ proc[p].pc = "done"
        /\ proc[p].op = "create_wallet"
        /\ proc[p].resp.message = "Wallet exists"
        /\ proc[p].wallet.balance > 0
        /\ Cardinality(WalletsOf(proc[p].user)) = 1

(* C25. In every reachable state, whatever the interleaving of the calls   *)
(* of create_wallet_for_user, there is at most one account per rider id.   *)
C25_OneAccountPerRider ==
    \A u \in Riders : Cardinality(WalletsOf(u)) <= 1


(* C26. No step changes the balance or the transaction log of an account   *)
(* whose status is inactive: a new account keeps zero balance and an empty *)
(* log until it is activated.                                              *)
C26_InactiveUntouched ==
    [][\A i \in 1..Len(wallets) :
          (wallets[i].status = "inactive" /\ i <= Len(wallets'))
          => /\ wallets'[i].balance = wallets[i].balance
             /\ wallets'[i].transactions = wallets[i].transactions]_vars

\* a recharge request answered in slot p by this step; a request repeated in
\* the same slot with the same answer leaves the slot as it was, and is seen
\* by the wallet it changed (so its answer was a success)
RechargeStep(p) ==
    /\ proc'[p].op = "recharge"
    /\ proc'[p].pc = "done"
    /\ \/ proc'[p] # proc[p]
       \/ proc' = proc /\ wallets' # wallets /\ proc[p].resp.success

(* C27. A credit on an existing account succeeds, increases its balance by *)
(* exactly the amount and appends exactly one credit record of that amount *)
(* to its log; nothing else of the account and no other account changes.   *)
(* Without an account the credit fails and changes nothing.                *)
C27_CreditExact ==
    [][\A p \in Procs :
          RechargeStep(p) =>
            LET u == proc'[p].user
            IN  IF WalletsOf(u) = {}
                THEN ~proc'[p].resp.success /\ wallets' = wallets
                ELSE /\ proc'[p].resp.success
                     /\ \E i \in WalletsOf(u), a \in RechargeAmounts :
                           wallets' = [wallets EXCEPT
                              ![i].balance = @ + a,
                              ![i].transactions =
                                  Append(@, [type |-> "credit", amount |-> a,
                                             reference |-> "RECHARGE"])]]_vars

\* a recharge answered with success for a rider who has an account with a log
C27_Witness ==
    \E p \in Procs :
        /\ proc[p].pc = "done"
        /\ proc[p].op = "recharge"
        /\ proc[p].resp.success
        /\ \E i \in WalletsOf(proc[p].user) :
              /\ wallets[i].transactions # <<>>
              /\ wallets[i].balance > 0

(* C28. The balance of a rider without an account reads zero, and an entry *)
(* whose balance check runs while the rider has no account is denied for   *)
(* insufficient balance, creating no journey and no account.               *)
C28_NoAccountReadsZero ==
    [][/\ \A u \in Riders : WalletsOf(u) = {} => GetBalance(u) = 0
       /\ \A p \in Procs :
             (EntryStep(p) /\ proc[p].pc = "e_balance" /\ WalletsOf(proc[p].user) = {})
             => /\ proc'[p].pc = "done"
                /\ proc'[p].resp.action = "deny_entry"
                /\ proc'[p].resp.message = "Insufficient balance"
                /\ journeys' = journeys
                /\ wallets' = wallets]_vars

\* an entry denied at the floor for a rider who has no account
C28_Witness ==
    \E p \in Procs :
        /\ proc[p].pc = "done"
        /\ proc[p].op = "entry"
        /\ proc[p].resp.message = "Insufficient balance"
        /\ WalletsOf(proc[p].user) = {}

\* a step of the activation in slot p
ActivateStep(p) == proc'[p] # proc[p] /\ proc'[p].op = "activate"

(* C29. activate fails with "Wallet not found" and creates no account when *)
(* the rider has none; otherwise it sets the status of the account to      *)
(* active and leaves its balance and log, and every other account, as they *)
(* were; on an active account it changes nothing.                          *)
C29_ActivateExact ==
    [][\A p \in Procs :
          ActivateStep(p) =>
            LET u == proc'[p].user
            IN  IF WalletsOf(u) = {}
                THEN /\ ~proc'[p].resp.success
                     /\ proc'[p].resp.message = "Wallet not found"
                     /\ wallets' = wallets
                ELSE /\ proc'[p].resp.success
                     /\ \E i \in WalletsOf(u) :
                           /\ wallets' = [wallets EXCEPT ![i].status = "active"]
                           /\ wallets[i].status = "active" => wallets' = wallets]_vars

\* an activation answered with success on an account that has a balance
C29_Witness ==
    \E p \in Procs :
        /\ proc[p].pc = "done"
        /\ proc[p].op = "activate"
        /\ proc[p].resp.success
        /\ \E i \in WalletsOf(proc[p].user) :
              wallets[i].status = "active" /\ wallets[i].balance > 0

(* C30. The transaction log is append-only: over every step each account's *)
(* log keeps the log before the step as a prefix; it grows by exactly one  *)
(* record on the debit of an exit and on a successful recharge of that     *)
(* account, and not at all on any other step.                              *)
C30_LogAppendOnly ==
    [][\A i \in 1..Len(wallets) :
          LET old == wallets[i].transactions
              new == wallets'[i].transactions
              u == wallets[i].user_id
              debit == \E p \in TripProcs :
                          /\ proc[p].pc = "x_debit"
                          /\ proc'[p].pc = "x_find"
                          /\ proc[p].user = u
              credit == \E p \in TripProcs :
                          /\ RechargeStep(p)
                          /\ proc'[p].resp.success
                          /\ proc'[p].user = u
          IN  /\ Len(wallets') = Len(wallets)
              /\ Len(new) >= Len(old)
              /\ SubSeq(new, 1, Len(old)) = old
              /\ Len(new) = Len(old) + (IF i = WalletIdx(u) /\ (debit \/ credit) THEN 1 ELSE 0)]_vars

\* an account whose log holds a credit followed by the debit of an exit
C30_Witness ==
    \E i \in 1..Len(wallets) :
        /\ Len(wallets[i].transactions) >= 2
        /\ wallets[i].transactions[1].type = "credit"
        /\ wallets[i].transactions[Len(wallets[i].transactions)].type = "debit"
        /\ wallets[i].status = "active"


(***************************************************************************)
(* Decisions.                                                              *)
(***************************************************************************)
\* the gate event in slot p is being evaluated
Evaluating(p) == proc[p].pc \in EntryPcs \cup ExitPcs

\* the gate event in slot p got its one decision
Decided(p) ==
    /\ proc[p].pc = "done"
    /\ \/ proc[p].op = "entry" /\ proc[p].resp.action \in {"allow_entry", "deny_entry"}
       \/ proc[p].op = "exit" /\ proc[p].resp.action \in {"allow_exit", "deny_exit"}
    /\ proc[p].resp.success <=> proc[p].resp.action \in {"allow_entry", "allow_exit"}

(* C31. Every gate event terminates with a single decision: an entry or    *)
(* exit that is being evaluated eventually is decided, allowed or denied;  *)
(* a slot holds no response while it evaluates, and a slot that served a   *)
(* gate event and is not evaluating holds exactly one decision.            *)
C31_GateEventDecides ==
    /\ [](\A p \in Procs :
             /\ Evaluating(p) => proc[p].resp = NoResp
             /\ (proc[p].op \in {"entry", "exit"} /\ ~Evaluating(p)) => Decided(p))
    /\ \A p \in Procs : Evaluating(p) ~> Decided(p)

\* an exit decided after a storage failure of its completion
C31_Witness ==
    \E p \in Procs :
        /\ Decided(p)
        /\ proc[p].op = "exit"
        /\ proc[p].exc = "storage failure"
        /\ proc[p].debited


\* a step of a price request in slot p
PriceStep(p) == proc'[p] # proc[p] /\ proc'[p].op = "price"

(* C32. The fare resolver is pure: no step of a price request, answered or *)
(* failing, alone or next to another one, changes the stored rules, the    *)
(* journeys, the wallets or the stations; and its answer is determined by  *)
(* its two codes and the rules stored when the lookup that answers runs,   *)
(* so the same codes against the same rules give the same answer.          *)
C32_PricePure ==
    [][\A p \in Procs :
          PriceStep(p) =>
            /\ fares' = fares
            /\ journeys' = journeys
            /\ wallets' = wallets
            /\ stations' = stations
            /\ proc'[p].pc = "done" =>
                  LET n == proc'[p]
                      a == Upper(n.origin)
                      b == Upper(n.code)
                      S == IF proc[p].pc = "f_reverse" THEN RulesFor(b, a) ELSE RulesFor(a, b)
                  IN  IF S = {}
                      THEN ~n.resp.success /\ n.fare = NoFare
                      ELSE /\ n.resp.success
                           /\ \E k \in S :
                                 /\ \A m \in S : k <= m
                                 /\ n.fare = [found |-> TRUE, from_station |-> a,
                                              to_station |-> b,
                                              distance_km |-> fares[k].distance_km,
                                              base_fare |-> fares[k].base_fare,
                                              service_charge |-> 5,
                                              total_fare |-> fares[k].base_fare + 5]]_vars

\* two price requests with the same codes answered alike, one rule stored
C32_Witness ==
    \E p \in Procs, q \in Procs :
        /\ p # q
        /\ proc[p].pc = "done" /\ proc[p].op = "price"
        /\ proc[q].pc = "done" /\ proc[q].op = "price"
        /\ proc[p].origin = proc[q].origin
        /\ proc[p].code = proc[q].code
        /\ proc[p].fare.found
        /\ proc[p].fare = proc[q].fare
        /\ Len(fares) = 1


(* C33. The journey an allowed exit marks completed is the journey the     *)
(* exit read at its first step: the id written in the debit's reference    *)
(* and the origin used for the price are those of the completed journey.   *)
C33_CompletesWhatItRead ==
    \A p \in Procs :
        (proc[p].pc = "done" /\ proc[p].op = "exit" /\ proc[p].resp.action = "allow_exit")
            => /\ proc[p].cjid = proc[p].jid
               /\ \A i \in 1..Len(journeys) :
                     journeys[i]._id = proc[p].cjid
                        => journeys[i].entry_station_code = proc[p].fare.from_station


(* C34. Journey shape: an ongoing journey has no exit code, exit time,     *)
(* duration or fare total; a completed journey has all four; an            *)
(* emergency_cancelled journey has no exit code, exit time or fare total.  *)
C34_JourneyShape ==
    \A i \in 1..Len(journeys) :
        LET j == journeys[i]
        IN  /\ j.status = "ongoing" =>
                 /\ j.exit_station_code = Null
                 /\ j.exit_time = NullNum
                 /\ j.journey_duration_minutes = NullNum
                 /\ j.fare_details.total_fare = NullNum
            /\ j.status = "completed" =>
                 /\ j.exit_station_code # Null
                 /\ j.exit_time # NullNum
                 /\ j.journey_duration_minutes # NullNum
                 /\ j.fare_details.total_fare # NullNum
            /\ j.status = "emergency_cancelled" =>
                 /\ j.exit_station_code = Null
                 /\ j.exit_time = NullNum
                 /\ j.fare_details.total_fare = NullNum


(* C35. Closing a journey changes only closing fields: no step changes the *)
(* id, rider, origin code, origin time or deadline of a stored journey,    *)
(* and the deadline is always the origin time plus four hours.             *)
C35_CreationFieldsKept ==
    /\ [](\A i \in 1..Len(journeys) :
             journeys[i].max_journey_time = journeys[i].entry_time + 4)
    /\ [][\A i \in 1..Len(journeys), k \in 1..Len(journeys') :
             journeys'[k]._id = journeys[i]._id =>
                /\ journeys'[k].journey_id = journeys[i].journey_id
                /\ journeys'[k].user_id = journeys[i].user_id
                /\ journeys'[k].entry_station_code = journeys[i].entry_station_code
                /\ journeys'[k].entry_time = journeys[i].entry_time
                /\ journeys'[k].max_journey_time = journeys[i].max_journey_time]_vars

\* a journey completed after its origin hour, and one cancelled
C35_Witness ==
    \E i \in 1..Len(journeys), k \in 1..Len(journeys) :
        /\ journeys[i].status = "completed"
        /\ journeys[i].exit_time > journeys[i].entry_time
        /\ journeys[k].status = "emergency_cancelled"
        /\ journeys[k].entry_time > 0


\* the step changes, removes or adds a journey of rider r
JourneysTouched(r) ==
    \/ \E i \in 1..Len(journeys) :
          /\ journeys[i].user_id = r
          /\ (i > Len(journeys') \/ journeys'[i] # journeys[i])
    \/ \E i \in (Len(journeys) + 1)..Len(journeys') : journeys'[i].user_id = r

\* the step changes, removes or adds a wallet of rider r
WalletsTouched(r) ==
    \/ \E i \in 1..Len(wallets) :
          /\ wallets[i].user_id = r
          /\ (i > Len(wallets') \/ wallets'[i] # wallets[i])
    \/ \E i \in (Len(wallets) + 1)..Len(wallets') : wallets'[i].user_id = r

(* C36. Each operation is scoped to one rider: a step that changes a       *)
(* journey or a wallet of rider r is a step of an entry, exit, cancel or   *)
(* recharge for r, and no step changes the documents of two riders.        *)
C36_ScopedToOneRider ==
    [][/\ \A r \in Riders :
             (JourneysTouched(r) \/ WalletsTouched(r)) =>
                \E p \in Procs :
                   /\ proc'[p].user = r
                   /\ proc'[p].op \in {"entry", "exit", "cancel", "recharge"}
                   /\ (proc'[p] # proc[p] \/ RechargeStep(p))
                   /\ \A q \in Procs \ {p} : proc'[q] = proc[q]
       /\ Cardinality({r \in Riders : JourneysTouched(r) \/ WalletsTouched(r)}) <= 1]_vars

\* rider 1 has completed a paid trip while rider 2, with a journey of their
\* own still ongoing, has an exit in flight
C36_Witness ==
    /\ \E i \in 1..Len(journeys) : journeys[i].user_id = 1 /\ journeys[i].status = "completed"
    /\ \E i \in 1..Len(journeys) : journeys[i].user_id = 2 /\ journeys[i].status = "ongoing"
    /\ \E i \in 1..Len(wallets) :
          /\ wallets[i].user_id = 1
          /\ \E k \in 1..Len(wallets[i].transactions) : wallets[i].transactions[k].type = "debit"
    /\ \E p \in Procs : proc[p].user = 2 /\ proc[p].pc = "x_debit"


\* rider u has travelled and every journey of theirs is closed
Closed(u) ==
    /\ \E i \in 1..Len(journeys) : journeys[i].user_id = u
    /\ \A i \in 1..Len(journeys) :
          journeys[i].user_id = u => journeys[i].status \in {"completed", "emergency_cancelled"}

(* C37. A closed trip frees the rider: once the rider's journeys are       *)
(* completed or emergency_cancelled, the lookup of the ongoing journey     *)
(* finds none, an exit is denied with "No journey ongoing", and an entry   *)
(* at an active station with the floor balance goes through every step to  *)
(* allow_entry, appending a new ongoing journey and leaving the closed     *)
(* ones as they are.                                                       *)
C37_ClosedTripFrees ==
    /\ [](\A u \in Riders : Closed(u) => OngoingIdx(u) = 0)
    /\ [][\A p \in Procs :
            Closed(proc'[p].user) =>
              /\ (ExitStep(p) /\ Free(p)) =>
                    /\ proc'[p].pc = "done"
                    /\ proc'[p].resp = Resp(FALSE, "deny_exit", "No journey ongoing")
                    /\ journeys' = journeys
              /\ EntryStep(p) =>
                    /\ (Free(p) /\ StationIdx(proc'[p].code) # 0) => proc'[p].pc = "e_balance"
                    /\ (proc[p].pc = "e_balance" /\ GetBalance(proc[p].user) >= 20)
                          => proc'[p].pc = "e_find"
                    /\ proc[p].pc = "e_find" => proc'[p].pc = "e_insert"
                    /\ proc[p].pc = "e_insert" =>
                          /\ proc'[p].pc = "done"
                          /\ proc'[p].resp.action = "allow_entry"
                          /\ Len(journeys') = Len(journeys) + 1
                          /\ \A i \in 1..Len(journeys) : journeys'[i] = journeys[i]
                          /\ journeys'[Len(journeys')].user_id = proc[p].user
                          /\ journeys'[Len(journeys')].status = "ongoing"]_vars

\* an entry allowed after a closed trip: the closed journey next to the new
\* ongoing one
C37_Witness ==
    \E p \in Procs :
        /\ proc[p].pc = "done" /\ proc[p].resp.action = "allow_entry"
        /\ Len(journeys) = 2
        /\ journeys[1].user_id = proc[p].user
        /\ journeys[1].status \in {"completed", "emergency_cancelled"}
        /\ journeys[2].user_id = proc[p].user
        /\ journeys[2].status = "ongoing"


(* C38. A debit or a credit for a rider who has no wallet reports failure  *)
(* (add_transaction returns False, the recharge answers "Recharge          *)
(* transaction failed"), creates no wallet and leaves every stored wallet  *)
(* as it was.                                                              *)
C38_NoWalletNoTransaction ==
    [][\A p \in Procs :
          /\ (DebitStep(p) /\ WalletsOf(proc[p].user) = {}) =>
                /\ wallets' = wallets
                /\ ~proc'[p].debited
          /\ (RechargeStep(p) /\ WalletsOf(proc'[p].user) = {}) =>
                /\ wallets' = wallets
                /\ proc'[p].resp = Resp(FALSE, "recharge", "Recharge transaction failed")]_vars

\* an exit whose debit found no wallet of the rider, next to another
\* rider's wallet
C38_Witness ==
    \E p \in Procs :
        /\ proc[p].op = "exit"
        /\ proc[p].pc = "x_find"
        /\ ~proc[p].debited
        /\ WalletsOf(proc[p].user) = {}
        /\ Len(wallets) > 0


\* a step of an emergency cancel in slot p
CancelStep(p) == proc'[p] # proc[p] /\ proc'[p].op = "cancel"

(* C39. Emergency cancel requires an ongoing journey: for a rider without  *)
(* one it answers "No journey to cancel" and changes no journey; for a     *)
(* rider with one, and no other request in flight, it sets exactly that    *)
(* journey to emergency_cancelled and leaves the wallets unchanged.        *)
C39_CancelNeedsOngoing ==
    [][\A p \in Procs :
          CancelStep(p) =>
            /\ wallets' = wallets
            /\ (Free(p) /\ OngoingOf(proc'[p].user) = {}) =>
                  /\ proc'[p].pc = "done"
                  /\ proc'[p].resp = Resp(FALSE, "cancel", "No journey to cancel")
                  /\ journeys' = journeys
            /\ (Free(p) /\ OngoingOf(proc'[p].user) # {}) =>
                  /\ proc'[p].pc = "c_update"
                  /\ journeys' = journeys
            /\ proc[p].pc = "c_update" =>
                  /\ proc'[p].pc = "done"
                  /\ proc'[p].resp = Resp(TRUE, "cancel", "Journey cancelled")
                  /\ \E i \in OngoingOf(proc[p].user) :
                        /\ \A k \in OngoingOf(proc[p].user) : i <= k
                        /\ journeys' = [journeys EXCEPT ![i].status = "emergency_cancelled"]]_vars

\* a cancel done for a rider who had paid a trip before: the completed
\* journey next to the cancelled one
C39_Witness ==
    \E p \in Procs :
        /\ proc[p].pc = "done" /\ proc[p].op = "cancel" /\ proc[p].resp.success
        /\ Len(journeys) = 2
        /\ journeys[1].status = "completed"
        /\ journeys[2].status = "emergency_cancelled"
        /\ journeys[2].user_id = proc[p].user

====
